---- MODULE Spec2Model ----
(***************************************************************************)
(* Deployment and process supervision of the Java application:             *)
(* deployment_script.py (the traced variant) and                           *)
(* deployment_script_simple.py (the build-from-source variant).            *)
(*                                                                         *)
(* The specifications share the actions below.                             *)
(*   Spec     the program: main() registers the signal handlers, creates   *)
(*            the deployer, runs deploy() and then exits or sits in the    *)
(*            daemon loop, while SIGINT/SIGTERM may be delivered at any    *)
(*            point after registration.  Python runs a handler in the main *)
(*            thread on top of whatever was running, so handlers nest and  *)
(*            the interrupted code resumes only if the handler returns.    *)
(*   SpecApi  one JavaAppDeployer instance driven by a client that calls   *)
(*            deploy(), start_java_process() and stop_java_process() in    *)
(*            any order, one call after the other.                         *)
(*   SpecCred the program on a host whose ~/.ssh and deploy key may exist  *)
(*            already, with any mode.                                      *)
(*   SpecFind _find_java_home on its own, on every host.                   *)
(*   SpecSecrets  get_secret, get_secret_as_json / get_secret_dict and     *)
(*            setup_ssh_key called in sequence against a secret store that *)
(*            may answer anything.                                         *)
(***************************************************************************)
EXTENDS Naturals, Integers, Sequences, FiniteSets

VARIABLES
    variant,            \* "traced" (deployment_script.py) or "simple" (deployment_script_simple.py)
    daemon,             \* args.daemon
    driver,             \* "main": main() runs; "client": methods are called on the instance
    pc,                 \* location of the main thread
    hstack,             \* locations of the signal_handler frames, innermost last
    handlersInstalled,  \* signal.signal(...) has been executed
    deployerDefined,    \* 'deployer' in globals()
    java_process,       \* self.java_process: 0 is None, otherwise the index of a child in procs
    procs,              \* the child processes spawned so far, with their Popen state
    results,            \* what each stage of the current deploy() returned
    stagesRun,          \* the stages the current deploy() has started, in order
    inDeploy,           \* deploy() is on the call stack
    deployRet,          \* return value of deploy(): "none", "true", "false"
    startRet,           \* return value of the last start_java_process()
    exitCode,           \* -1 while the program runs, else its exit status
    raised,             \* an exception that left stop_java_process, "none" if none did
    dirExists,          \* self.target_dir exists on disk
    jarExists,          \* <target_dir>/build/libs/project.jar exists on disk
    nsignals,           \* signals delivered so far
    ncalls,             \* client calls made so far
    curOp,              \* the client call in progress or last completed
    prevOp,             \* the client call completed before curOp began
    sigsThisCall,       \* signals sent to children since curOp began
    host,               \* the machine: where a runtime is installed, what its tools answer
    repo,               \* the content of the remote repository
    files,              \* the files of target_dir other than the artifact
    java_home,          \* what the last _find_java_home returned, NoPath for None
    findLog,            \* the strategies the last _find_java_home went through
    buildLog,           \* the steps the last build_java_application went through
    secretOutcome,      \* what the secret store answered to the last fetch
    cloneLog,           \* the commands the last clone_repository executed
    sshDirMode,         \* mode of ~/.ssh, "absent" if it does not exist
    keyMode,            \* mode of ~/.ssh/deploy_key, "absent" if it does not exist
    os_environ,         \* os.environ of the orchestrator: a function from names to values
    java_port,          \* self.java_port
    buildEnv,           \* the env handed to the last build-stage child processes
    spawns,             \* per child of procs: the env and cwd its Popen was given
    fetches,            \* the calls of the secrets-manager functions made so far
    remoteReads,        \* get_secret_value requests issued so far
    keyFile,            \* content of ~/.ssh/deploy_key as written by setup_ssh_key
    sshConfig           \* content of ~/.ssh/config: "absent" or "deploy" once written

vars == <<variant, daemon, driver, pc, hstack, handlersInstalled, deployerDefined,
          java_process, procs, results, stagesRun, inDeploy, deployRet, startRet,
          exitCode, raised, dirExists, jarExists, nsignals, ncalls, curOp, prevOp,
          sigsThisCall, host, repo, files, java_home, findLog, buildLog,
          secretOutcome, cloneLog, sshDirMode, keyMode, os_environ, java_port,
          buildEnv, spawns, fetches, remoteReads, keyFile, sshConfig>>

\* Groups of variables that most actions leave alone.
sshModes == <<sshDirMode, keyMode, sshConfig>>
envState == <<os_environ, java_port, buildEnv, spawns>>
secretState == <<fetches, remoteReads, keyFile>>

\* Bounds of the model.
MaxSignals == 2
MaxCalls == 3

Variants == {"traced", "simple"}
Stages == {"credential", "clone", "build", "verify", "launch"}

\* The outcomes of the secret store as get_secret sees them.
\* "key" is a non-empty SecretString, "empty" an empty one; the exception
\* names ending in Exception are codes of a ClientError.
SecretOutcomes == {"key", "empty", "ResourceNotFoundException",
                   "InternalServiceErrorException", "AccessDeniedException",
                   "NoCredentialsError", "BotoCoreError", "Exception"}

Range(s) == {s[i] : i \in 1..Len(s)}

NoResults == [s \in Stages |-> "none"]

-----------------------------------------------------------------------------
(* get_secret: the traced variant re-raises every error, the simple variant *)
(* returns None.                                                            *)
get_secret(v, outcome) ==
    IF outcome \in {"key", "empty"}
    THEN [value |-> outcome, raises |-> FALSE]
    ELSE IF v = "traced"
         THEN [value |-> "None", raises |-> TRUE]
         ELSE [value |-> "None", raises |-> FALSE]

\* Variant of KeyRetrieved that takes every outcome of the fetch for a key.
KeyRetrieved_Always(r) == TRUE

\* The fetch returned and "if not ssh_key" lets the value pass: the
\* filesystem part of setup_ssh_key is reached.
KeyRetrieved(r) == ~r.raises /\ r.value = "key"

\* with open(ssh_config, 'w') as f: f.write(config_content)
WriteConfig(c) == "deploy"

\* Variant of SetupSshKeyResult that tests the key for the empty string
\* only, so that a None from the simple get_secret passes the test.
SetupSshKeyResult_EmptyOnly(v, outcome, fsOk) ==
    LET r == get_secret(v, outcome)
    IN  IF r.raises THEN FALSE
        ELSE IF r.value = "empty" THEN FALSE
        ELSE fsOk

\* Mutant: the retrieved key is not tested for being falsy.
SetupSshKeyResult_NoKeyCheck(v, outcome, fsOk) ==
    IF get_secret(v, outcome).raises THEN FALSE ELSE fsOk

\* What setup_ssh_key returns: False on an exception (caught by its own
\* except Exception), on a falsy key, and on a failing filesystem write.
SetupSshKeyResult(v, outcome, fsOk) ==
    LET r == get_secret(v, outcome)
    IN  IF r.raises THEN FALSE
        ELSE IF r.value # "key" THEN FALSE
        ELSE fsOk

\* Mutant: the launch is attempted before the artifact is verified.
StageOrder_LaunchBeforeVerify(v) ==
    IF v = "simple"
    THEN <<"credential", "clone", "build", "launch", "verify">>
    ELSE <<"credential", "clone", "launch", "verify">>

\* The stages of deploy() in the order of its if-chain.
StageOrder(v) ==
    IF v = "simple"
    THEN <<"credential", "clone", "build", "verify", "launch">>
    ELSE <<"credential", "clone", "verify", "launch">>

\* Mutant: the result of clone_repository is not tested ("if not" dropped).
NextStage_CloneUnchecked(v, res) ==
    LET order == StageOrder(v)
        open  == {i \in 1..Len(order) :
                     res[order[i]] = "none"
                        \/ (res[order[i]] = "fail" /\ order[i] # "clone")}
    IN  IF open = {} THEN "return_true"
        ELSE LET i == CHOOSE j \in open : \A k \in open : j <= k
             IN  IF res[order[i]] = "fail" THEN "return_false" ELSE order[i]

\* deploy()'s if-chain: the next thing deploy() does, given what the stages
\* called so far have returned.
NextStage(v, res) ==
    LET order == StageOrder(v)
        open  == {i \in 1..Len(order) : res[order[i]] # "ok"}
    IN  IF open = {} THEN "return_true"
        ELSE LET i == CHOOSE j \in open : \A k \in open : j <= k
             IN  IF res[order[i]] = "fail" THEN "return_false" ELSE order[i]

\* The location at which a stage method starts.
StageEntry(s) ==
    CASE s = "credential" -> "ssh_run"
      [] s = "clone"      -> "clone_run"
      [] s = "build"      -> "build_run"
      [] s = "verify"     -> "verify_run"
      [] s = "launch"     -> "start_enter"

-----------------------------------------------------------------------------
(* Popen.  A child is alive until it exits; the Popen object learns of the  *)
(* exit (returncode is set, "reaped") when poll() or wait() observes it.    *)
NewChild == [alive |-> TRUE, reaped |-> FALSE, terms |-> 0, kills |-> 0]

\* Popen.poll(): sets returncode when the child has exited.
Poll(ps, c) ==
    IF ps[c].alive THEN ps ELSE [ps EXCEPT ![c].reaped = TRUE]

\* Mutant: the signal goes out whatever the state of the child.
SignalSent_Unchecked(ps, c) == TRUE

\* Popen.terminate() / Popen.kill(): send_signal polls first and skips a
\* child that has exited; otherwise the signal goes out.
SignalSent(ps, c) == ~ps[c].reaped /\ ps[c].alive

\* self.java_process.kill()
kill(ps, c) ==
    IF SignalSent(ps, c) THEN [ps EXCEPT ![c].kills = @ + 1] ELSE Poll(ps, c)

\* Mutant: stop_java_process opens with kill() instead of terminate().
terminate_Forceful(ps, c) == kill(ps, c)

\* self.java_process.terminate()
terminate(ps, c) ==
    IF SignalSent(ps, c) THEN [ps EXCEPT ![c].terms = @ + 1] ELSE Poll(ps, c)


-----------------------------------------------------------------------------
(* The host and the toolchain discovery of the build variant.  A path is    *)
(* the sequence of its components; <<>> stands for None / not found.        *)
NoPath == <<>>

\* java_paths_to_try
ProbePaths ==
    << <<"usr", "lib", "jvm", "java-17-amazon-corretto">>,
       <<"usr", "lib", "jvm", "java-17-amazon-corretto.x86_64">>,
       <<"usr", "lib", "jvm", "java-17-openjdk">>,
       <<"usr", "lib", "jvm", "java-17">>,
       <<"usr", "java", "amazon-corretto-17">>,
       <<"opt", "java", "openjdk">> >>

\* The paths looked at again after the installation.
RecheckPaths ==
    << <<"usr", "lib", "jvm", "java-17-amazon-corretto">>,
       <<"usr", "lib", "jvm", "java-17-amazon-corretto.x86_64">> >>

\* What "which java" may print: nothing (exit status 1), a binary in a bin
\* directory, a binary elsewhere.
WhichResults == {NoPath, <<"usr", "bin", "java">>, <<"opt", "jdk17", "java">>}

\* "/bin/java" in java_binary_path
ContainsBinJava(p) ==
    \E i \in 1..Len(p) : i < Len(p) /\ p[i] = "bin" /\ p[i + 1] = "java"

\* java_binary_path.replace("/bin/java", "")
RECURSIVE StripBinJava(_)
StripBinJava(p) ==
    IF Len(p) = 0 THEN <<>>
    ELSE IF Len(p) >= 2 /\ p[1] = "bin" /\ p[2] = "java"
         THEN StripBinJava(SubSeq(p, 3, Len(p)))
         ELSE <<p[1]>> \o StripBinJava(Tail(p))

\* The home derived from the answer of "which java": None when which found
\* nothing or the path has no /bin/java in it.
HomeFromWhich(p) == IF ContainsBinJava(p) THEN StripBinJava(p) ELSE NoPath

\* Mutant: the last path of the list that is present is returned.
FirstPresent_Last(paths, present) ==
    LET hits == {i \in 1..Len(paths) : paths[i] \in present}
    IN  IF hits = {} THEN NoPath
        ELSE paths[CHOOSE i \in hits : \A k \in hits : k <= i]

\* for path in <paths>: if Path(f"{path}/bin/java").exists(): return path
RECURSIVE FirstPresent(_, _)
FirstPresent(paths, present) ==
    IF Len(paths) = 0 THEN NoPath
    ELSE IF paths[1] \in present THEN paths[1]
         ELSE FirstPresent(Tail(paths), present)

\* The host after a successful "yum install".
Installed(h) ==
    [h EXCEPT !.present = h.present \cup h.installs, !.which = h.whichAfter]

\* _find_java_home: the home it returns, the strategies it went through and
\* the host it leaves behind.
_find_java_home(h) ==
    LET probed == FirstPresent(ProbePaths, h.present)
        h2     == Installed(h)
        again  == FirstPresent(RecheckPaths, h2.present)
    IN  IF probed # NoPath
        THEN [home |-> probed, log |-> <<"probe">>, host |-> h]
        ELSE IF h.which # NoPath
        THEN [home |-> HomeFromWhich(h.which), log |-> <<"probe", "which">>,
              host |-> h]
        ELSE IF ~h.installOk
        THEN [home |-> NoPath, log |-> <<"probe", "which", "dump", "install">>,
              host |-> h]
        ELSE IF again # NoPath
        THEN [home |-> again,
              log |-> <<"probe", "which", "dump", "install", "reprobe">>,
              host |-> h2]
        ELSE [home |-> HomeFromWhich(h2.which),
              log |-> <<"probe", "which", "dump", "install", "reprobe", "rewhich">>,
              host |-> h2]

\* Every host as far as the discovery can tell hosts apart.
AllHosts ==
    [present : SUBSET Range(ProbePaths), which : WhichResults,
     installOk : BOOLEAN, installs : SUBSET Range(RecheckPaths),
     whichAfter : WhichResults, versionOk : {TRUE}, gradle : {TRUE}]

\* One host for each way the discovery can go: found in the probe list,
\* derived from the search path, found on the search path without a bin
\* directory, nothing found and the installation fails, found after the
\* installation.
DiscoveryCases ==
    { [present |-> {ProbePaths[1]}, which |-> NoPath, installOk |-> FALSE,
       installs |-> {}, whichAfter |-> NoPath],
      [present |-> {}, which |-> <<"usr", "bin", "java">>, installOk |-> FALSE,
       installs |-> {}, whichAfter |-> <<"usr", "bin", "java">>],
      [present |-> {}, which |-> <<"opt", "jdk17", "java">>, installOk |-> FALSE,
       installs |-> {}, whichAfter |-> <<"opt", "jdk17", "java">>],
      [present |-> {}, which |-> NoPath, installOk |-> FALSE,
       installs |-> {}, whichAfter |-> NoPath],
      [present |-> {}, which |-> NoPath, installOk |-> TRUE,
       installs |-> {ProbePaths[1]}, whichAfter |-> <<"usr", "bin", "java">>] }

\* The hosts of the deployment runs: a discovery case, whether "java
\* -version" exits with 0, whether "which gradle" finds a system gradle.
HostsMain ==
    { [present |-> d.present, which |-> d.which, installOk |-> d.installOk,
       installs |-> d.installs, whichAfter |-> d.whichAfter,
       versionOk |-> v, gradle |-> g] :
         d \in DiscoveryCases, v \in BOOLEAN, g \in BOOLEAN }

\* The traced variant never looks at the host.
PlainHost ==
    [present |-> {}, which |-> NoPath, installOk |-> FALSE, installs |-> {},
     whichAfter |-> NoPath, versionOk |-> TRUE, gradle |-> TRUE]

\* The remote repository: whether it ships build/libs/project.jar, and its
\* other files.
Repos == [jar : BOOLEAN, files : SUBSET {"gradlew"}]

\* What a target directory that is already there may hold besides the jar.
StaleFiles == SUBSET {"gradlew", "stale"}

-----------------------------------------------------------------------------
(* Files of the credential, environments, secrets                           *)

\* A secret that has not been fetched or written: the empty string.
NoSecret == <<>>

\* File modes as ls prints them; "absent" for a path that does not exist.
DirModes == {"absent", "0700", "0755"}
KeyModes == {"absent", "0600", "0644"}

\* The filesystem calls of setup_ssh_key in program order; one of them may
\* raise ("none": none does).
FsSteps == <<"mkdir", "write_key", "chmod", "write_config">>
FsFailures == {"none"} \cup Range(FsSteps)

\* The position of a step in FsSteps.
StepIndex(step) == CHOOSE i \in 1..Len(FsSteps) : FsSteps[i] = step

\* The step was executed and did not raise, given the one that raises.
StepDone(step, failAt) ==
    failAt = "none" \/ StepIndex(step) < StepIndex(failAt)

\* ssh_dir.mkdir(mode=0o700, exist_ok=True): an existing directory is left
\* as it is.
MkdirMode(m) == IF m = "absent" THEN "0700" ELSE m

\* open(ssh_key_path, 'w'): a new file gets 0666 less the umask (022), an
\* existing one keeps its mode.
OpenForWriteMode(m) == IF m = "absent" THEN "0644" ELSE m

\* ssh_key_path.chmod(0o600)
ChmodKey(m) == "0600"

\* An environment is a function from variable names to lists of paths or
\* words; NoEnv is the environment of no process.
NoEnv == <<>>

\* os.environ when the program starts.
BaseEnviron == [n \in {"PATH"} |-> << <<"usr", "bin">> >>]

\* --port, default 9000, as the text the command line carries.
DefaultPort == "9000"
Ports == {DefaultPort, "8080"}

\* env["JAVA_HOME"] = java_home; env["PATH"] = f"{java_home}/bin:{env.get('PATH', '')}"
WithJava(env, home) ==
    [n \in DOMAIN env \cup {"JAVA_HOME", "PATH"} |->
        IF n = "JAVA_HOME" THEN <<home>>
        ELSE IF n = "PATH"
        THEN <<home \o <<"bin">> >> \o (IF "PATH" \in DOMAIN env THEN env["PATH"] ELSE <<>>)
        ELSE env[n]]

\* Mutant: env is os.environ itself, not a copy of it.
EnvironAfterCopy_Aliased(environ, env) == env

\* env = os.environ.copy(): what os.environ is after env has been changed.
EnvironAfterCopy(environ, env) == environ

\* The env and cwd a Popen was given; without env= the child inherits
\* os.environ.
Spawn(env, cwd) == [env |-> env, cwd |-> cwd]

-----------------------------------------------------------------------------
(* secrets_manager.py and secrets_manager_simple.py                         *)

\* A SecretString is a sequence of tokens: "txt" is text that is no JSON
\* (a PEM key, say), the others are the tokens of a JSON document.
SecretStrings ==
    { NoSecret,
      <<"txt">>, <<"num">>,
      <<"txt", "txt">>, <<"{", "}">>, <<"[", "]">>,
      <<"[", "num", "]">>, <<"[", "num", ",">>,
      <<"{", "str", ":", "str", "}">>, <<"{", "str", ":", "str", "]">> }

\* What the secret store answers to one get_secret_value request: the
\* SecretString, or the error that is raised.
StoreAnswers ==
    [kind : {"ok"}, secret : SecretStrings]
        \cup [kind : SecretOutcomes \ {"key", "empty"}, secret : {NoSecret}]

\* The answer as the deployment stages see it.
AnswerOutcome(a) ==
    IF a.kind # "ok" THEN a.kind
    ELSE IF a.secret = NoSecret THEN "empty" ELSE "key"

\* Outcomes of a call: a returned value (None, a string, or a parsed JSON
\* value of some kind) or a raised exception.
ReturnedNone ==
    [how |-> "return", isNone |-> TRUE, text |-> NoSecret, parsed |-> "none",
     exc |-> "none"]
Returned(text) ==
    [how |-> "return", isNone |-> FALSE, text |-> text, parsed |-> "none",
     exc |-> "none"]
ReturnedParsed(text, kind) ==
    [how |-> "return", isNone |-> FALSE, text |-> text, parsed |-> kind,
     exc |-> "none"]
Raises(exc) ==
    [how |-> "raise", isNone |-> FALSE, text |-> NoSecret, parsed |-> "none",
     exc |-> exc]

\* What get_secret hands to its caller: the SecretString, and on an error
\* the exception itself (traced variant, "raise e") or None (simple variant).
get_secret_outcome(v, a) ==
    LET r == get_secret(v, AnswerOutcome(a))
    IN  IF r.raises THEN Raises(a.kind)
        ELSE IF r.value = "None" THEN ReturnedNone
        ELSE Returned(a.secret)

\* json.loads on a token sequence: a recursive-descent parse of one value.
JsonFail == [ok |-> FALSE, rest |-> <<>>, kind |-> "none"]

RECURSIVE ParseValue(_)
RECURSIVE ParseElements(_, _)
RECURSIVE ParseMembers(_, _)

ParseValue(t) ==
    IF t = <<>> THEN JsonFail
    ELSE IF Head(t) \in {"str", "num"}
    THEN [ok |-> TRUE, rest |-> Tail(t), kind |-> Head(t)]
    ELSE IF Head(t) = "[" THEN ParseElements(Tail(t), TRUE)
    ELSE IF Head(t) = "{" THEN ParseMembers(Tail(t), TRUE)
    ELSE JsonFail

\* The rest of an array after "[" (first) or after a comma.
ParseElements(t, first) ==
    IF t = <<>> THEN JsonFail
    ELSE IF first /\ Head(t) = "]"
    THEN [ok |-> TRUE, rest |-> Tail(t), kind |-> "list"]
    ELSE LET v == ParseValue(t)
         IN  IF ~v.ok \/ v.rest = <<>> THEN JsonFail
             ELSE IF Head(v.rest) = "]"
             THEN [ok |-> TRUE, rest |-> Tail(v.rest), kind |-> "list"]
             ELSE IF Head(v.rest) = ","
             THEN ParseElements(Tail(v.rest), FALSE)
             ELSE JsonFail

\* The rest of an object after "{" (first) or after a comma.
ParseMembers(t, first) ==
    IF t = <<>> THEN JsonFail
    ELSE IF first /\ Head(t) = "}"
    THEN [ok |-> TRUE, rest |-> Tail(t), kind |-> "dict"]
    ELSE IF Len(t) < 2 \/ t[1] # "str" \/ t[2] # ":" THEN JsonFail
    ELSE LET v == ParseValue(Tail(Tail(t)))
         IN  IF ~v.ok \/ v.rest = <<>> THEN JsonFail
             ELSE IF Head(v.rest) = "}"
             THEN [ok |-> TRUE, rest |-> Tail(v.rest), kind |-> "dict"]
             ELSE IF Head(v.rest) = ","
             THEN ParseMembers(Tail(v.rest), FALSE)
             ELSE JsonFail

\* json.loads(secret_string): the kind of the parsed value, or "none" for
\* a JSONDecodeError.
json_loads(t) ==
    LET v == ParseValue(t)
    IN  IF v.ok /\ v.rest = <<>> THEN v.kind ELSE "none"

\* len(x) raises TypeError on a number.
HasLen(kind) == kind # "num"

\* get_secret_as_json (traced) and get_secret_dict (simple): a falsy secret
\* gives None; the parsed value is returned whatever its kind; a
\* JSONDecodeError is re-raised (traced) or turned into None (simple); the
\* simple variant calls len() on the value inside the try and returns None
\* on the TypeError of a number.
get_secret_as_json(v, a) ==
    LET g == get_secret_outcome(v, a)
        kind == json_loads(g.text)
    IN  IF g.how = "raise" THEN g
        ELSE IF g.isNone \/ g.text = NoSecret THEN ReturnedNone
        ELSE IF kind = "none"
        THEN IF v = "traced" THEN Raises("JSONDecodeError") ELSE ReturnedNone
        ELSE IF v = "simple" /\ ~HasLen(kind) THEN ReturnedNone
        ELSE ReturnedParsed(g.text, kind)

\* Mutant: the secret itself is attached to the log event.
SecretLogFields_Leaky(secret) == [len |-> Len(secret), text |-> secret]

\* What a log event says about the secret: secret_length=len(secret).
SecretLogFields(secret) == [len |-> Len(secret), text |-> NoSecret]

\* A log, print or span event: its message, a length and a text field.
LogEvent(msg, fields) == [msg |-> msg, len |-> fields.len, text |-> fields.text]
PlainEvent(msg) == [msg |-> msg, len |-> 0, text |-> NoSecret]
ErrorEvent(msg, what) == [msg |-> msg, len |-> 0, text |-> <<what>>]

\* The events get_secret emits.
get_secret_log(v, a) ==
    << PlainEvent("Starting secret retrieval"),
       PlainEvent("Creating Secrets Manager client"),
       PlainEvent("Attempting to retrieve secret value") >>
    \o (IF a.kind = "ok"
        THEN << LogEvent("Secret retrieved successfully", SecretLogFields(a.secret)) >>
        ELSE << ErrorEvent("secret retrieval error", a.kind) >>)

\* Mutant: a transient service error is retried once.
RemoteReads_Retry(a) == IF a.kind = "InternalServiceErrorException" THEN 2 ELSE 1

\* The get_secret_value requests one call of get_secret issues.
RemoteReads(a) == 1

-----------------------------------------------------------------------------
(* Control.  The code that runs is the innermost signal handler if there is *)
(* one, else the main thread.                                               *)
Running == exitCode = -1
InHandler == hstack # <<>>
MainRuns == Running /\ ~InHandler
Loc == IF InHandler THEN hstack[Len(hstack)] ELSE pc

Goto(l) ==
    IF InHandler
    THEN hstack' = [hstack EXCEPT ![Len(hstack)] = l] /\ pc' = pc
    ELSE pc' = l /\ hstack' = hstack

\* Where stop_java_process returns to.
StopReturn == IF InHandler THEN "h_exit" ELSE "client_idle"

TypeOK ==
    /\ variant \in Variants
    /\ daemon \in BOOLEAN
    /\ driver \in {"main", "client", "find", "secrets"}
    /\ java_process \in 0..Len(procs)
    /\ exitCode \in {-1, 0, 1}
    /\ nsignals \in 0..MaxSignals
    /\ ncalls \in 0..MaxCalls
    /\ results \in [Stages -> {"none", "ok", "fail"}]

-----------------------------------------------------------------------------
Init ==
    /\ variant \in Variants
    /\ daemon \in BOOLEAN
    /\ driver = "main"
    /\ pc = "main_start"
    /\ hstack = <<>>
    /\ handlersInstalled = FALSE
    /\ deployerDefined = FALSE
    /\ java_process = 0
    /\ procs = <<>>
    /\ results = NoResults
    /\ stagesRun = <<>>
    /\ inDeploy = FALSE
    /\ deployRet = "none"
    /\ startRet = "none"
    /\ exitCode = -1
    /\ raised = "none"
    /\ dirExists \in BOOLEAN
    /\ jarExists \in (IF dirExists THEN BOOLEAN ELSE {FALSE})
    /\ nsignals = 0
    /\ ncalls = 0
    /\ curOp = "none"
    /\ prevOp = "none"
    /\ sigsThisCall = 0
    /\ host \in (IF variant = "simple" THEN HostsMain ELSE {PlainHost})
    /\ repo \in Repos
    /\ files \in (IF dirExists THEN StaleFiles ELSE {{}})
    /\ java_home = NoPath
    /\ findLog = <<>>
    /\ buildLog = <<>>
    /\ secretOutcome = "none"
    /\ cloneLog = <<>>
    /\ sshDirMode = "absent"
    /\ keyMode = "absent"
    /\ os_environ = BaseEnviron
    /\ java_port = DefaultPort
    /\ buildEnv = NoEnv
    /\ spawns = <<>>
    /\ fetches = <<>>
    /\ remoteReads = 0
    /\ keyFile = NoSecret
    /\ sshConfig = "absent"

\* A freshly constructed JavaAppDeployer (__init__) in the hands of a client.
InitApi ==
    /\ variant \in Variants
    /\ daemon = FALSE
    /\ driver = "client"
    /\ pc = "client_idle"
    /\ hstack = <<>>
    /\ handlersInstalled = FALSE
    /\ deployerDefined = TRUE
    /\ java_process = 0
    /\ procs = <<>>
    /\ results = NoResults
    /\ stagesRun = <<>>
    /\ inDeploy = FALSE
    /\ deployRet = "none"
    /\ startRet = "none"
    /\ exitCode = -1
    /\ raised = "none"
    /\ dirExists \in BOOLEAN
    /\ jarExists \in (IF dirExists THEN BOOLEAN ELSE {FALSE})
    /\ nsignals = 0
    /\ ncalls = 0
    /\ curOp = "none"
    /\ prevOp = "none"
    /\ sigsThisCall = 0
    /\ host \in (IF variant = "simple" THEN HostsMain ELSE {PlainHost})
    /\ host.versionOk /\ host.gradle
    /\ repo = [jar |-> TRUE, files |-> {"gradlew"}]
    /\ files = {}
    /\ java_home = NoPath
    /\ findLog = <<>>
    /\ buildLog = <<>>
    /\ secretOutcome = "none"
    /\ cloneLog = <<>>
    /\ sshDirMode = "absent"
    /\ keyMode = "absent"
    /\ os_environ = BaseEnviron
    /\ java_port \in Ports
    /\ buildEnv = NoEnv
    /\ spawns = <<>>
    /\ fetches = <<>>
    /\ remoteReads = 0
    /\ keyFile = NoSecret
    /\ sshConfig = "absent"

-----------------------------------------------------------------------------
(* main()                                                                   *)

\* signal.signal(SIGINT, signal_handler); signal.signal(SIGTERM, signal_handler)
main_register_signals ==
    /\ MainRuns /\ pc = "main_start"
    /\ handlersInstalled' = TRUE
    /\ pc' = "main_registered"
    /\ UNCHANGED <<sshModes, envState, secretState, host, repo, files, java_home, findLog, buildLog, secretOutcome,
                   cloneLog, variant, daemon, driver, hstack, deployerDefined, java_process,
                   procs, results, stagesRun, inDeploy, deployRet, startRet, exitCode,
                   raised, dirExists, jarExists, nsignals, ncalls, curOp, prevOp,
                   sigsThisCall>>

\* global deployer; deployer = JavaAppDeployer(...); deployer.deploy() is called next
main_create_deployer ==
    /\ MainRuns /\ pc = "main_registered"
    /\ deployerDefined' = TRUE
    /\ java_process' = 0
    /\ pc' = "deploy_enter"
    /\ UNCHANGED <<sshModes, envState, secretState, host, repo, files, java_home, findLog, buildLog, secretOutcome,
                   cloneLog, variant, daemon, driver, hstack, handlersInstalled, procs, results,
                   stagesRun, inDeploy, deployRet, startRet, exitCode, raised,
                   dirExists, jarExists, nsignals, ncalls, curOp, prevOp, sigsThisCall>>

\* The exit status main() ends with when deploy() returned False: sys.exit(1).
FailureExitCode == 1

\* Variant of main_after_deploy that stops the child before a plain exit.
main_after_deploy_Stops ==
    /\ MainRuns /\ pc = "main_after_deploy"
    /\ IF deployRet = "true"
       THEN IF daemon
            THEN pc' = "daemon_loop" /\ exitCode' = exitCode /\ procs' = procs
            ELSE /\ pc' = "exited" /\ exitCode' = 0
                 /\ procs' = IF java_process # 0
                             THEN terminate(procs, java_process)
                             ELSE procs
       ELSE pc' = "exited" /\ exitCode' = FailureExitCode /\ procs' = procs
    /\ UNCHANGED <<sshModes, envState, secretState, host, repo, files, java_home, findLog, buildLog, secretOutcome,
                   cloneLog, variant, daemon, driver, hstack, handlersInstalled, deployerDefined,
                   java_process, results, stagesRun, inDeploy, deployRet,
                   startRet, raised, dirExists, jarExists, nsignals, ncalls, curOp,
                   prevOp, sigsThisCall>>

\* if deployer.deploy(): ... else: sys.exit(1)
main_after_deploy ==
    /\ MainRuns /\ pc = "main_after_deploy"
    /\ IF deployRet = "true"
       THEN IF daemon
            THEN pc' = "daemon_loop" /\ exitCode' = exitCode
            ELSE pc' = "exited" /\ exitCode' = 0
       ELSE pc' = "exited" /\ exitCode' = FailureExitCode
    /\ UNCHANGED <<sshModes, envState, secretState, host, repo, files, java_home, findLog, buildLog, secretOutcome,
                   cloneLog, variant, daemon, driver, hstack, handlersInstalled, deployerDefined,
                   java_process, procs, results, stagesRun, inDeploy, deployRet,
                   startRet, raised, dirExists, jarExists, nsignals, ncalls, curOp,
                   prevOp, sigsThisCall>>

\* Mutant: the idle loop of the daemon ends by itself.
main_daemon_sleep_Returns ==
    /\ MainRuns /\ pc = "daemon_loop"
    /\ pc' = "exited"
    /\ exitCode' = 0
    /\ UNCHANGED <<sshModes, envState, secretState, host, repo, files, java_home, findLog, buildLog, secretOutcome,
                   cloneLog, variant, daemon, driver, hstack, handlersInstalled,
                   deployerDefined, java_process, procs, results, stagesRun, inDeploy,
                   deployRet, startRet, raised, dirExists, jarExists, nsignals, ncalls,
                   curOp, prevOp, sigsThisCall>>

\* while True: time.sleep(1).  SIGINT is routed to signal_handler, so the
\* except KeyboardInterrupt of the loop is never entered.
main_daemon_sleep ==
    /\ MainRuns /\ pc = "daemon_loop"
    /\ UNCHANGED vars

-----------------------------------------------------------------------------
(* deploy()                                                                 *)

deploy_begin ==
    /\ MainRuns /\ pc = "deploy_enter"
    /\ results' = NoResults
    /\ stagesRun' = <<>>
    /\ inDeploy' = TRUE
    /\ deployRet' = "none"
    /\ secretOutcome' = "none"
    /\ cloneLog' = <<>>
    /\ buildLog' = <<>>
    /\ pc' = "deploy_next"
    /\ UNCHANGED <<sshModes, envState, secretState, host, repo, files, java_home, findLog, variant, daemon, driver,
                   hstack, handlersInstalled, deployerDefined, java_process, procs,
                   startRet, exitCode, raised, dirExists, jarExists, nsignals, ncalls,
                   curOp, prevOp, sigsThisCall>>

\* One "if not self.<stage>():" of the chain: the stage is called.
deploy_call_stage ==
    /\ MainRuns /\ pc = "deploy_next"
    /\ NextStage(variant, results) \in Stages
    /\ stagesRun' = Append(stagesRun, NextStage(variant, results))
    /\ pc' = StageEntry(NextStage(variant, results))
    /\ UNCHANGED <<sshModes, envState, secretState, host, repo, files, java_home, findLog, buildLog, secretOutcome,
                   cloneLog, variant, daemon, driver, hstack, handlersInstalled, deployerDefined,
                   java_process, procs, results, inDeploy, deployRet, startRet,
                   exitCode, raised, dirExists, jarExists, nsignals, ncalls, curOp,
                   prevOp, sigsThisCall>>

\* return False after a failed stage, return True after the last one.
deploy_return ==
    /\ MainRuns /\ pc = "deploy_next"
    /\ NextStage(variant, results) \notin Stages
    /\ deployRet' = IF NextStage(variant, results) = "return_true" THEN "true" ELSE "false"
    /\ inDeploy' = FALSE
    /\ pc' = IF driver = "main" THEN "main_after_deploy" ELSE "client_idle"
    /\ UNCHANGED <<sshModes, envState, secretState, host, repo, files, java_home, findLog, buildLog, secretOutcome,
                   cloneLog, variant, daemon, driver, hstack, handlersInstalled, deployerDefined,
                   java_process, procs, results, stagesRun, startRet, exitCode, raised,
                   dirExists, jarExists, nsignals, ncalls, curOp, prevOp, sigsThisCall>>

\* A stage method called by deploy() returns b.
StageReturns(s, b) ==
    /\ results' = [results EXCEPT ![s] = IF b THEN "ok" ELSE "fail"]
    /\ pc' = "deploy_next"

-----------------------------------------------------------------------------
(* The stages before the launch                                             *)

setup_ssh_key ==
    /\ MainRuns /\ pc = "ssh_run"
    /\ \E outcome \in SecretOutcomes, failAt \in FsFailures :
          LET r == get_secret(variant, outcome)
              installs == KeyRetrieved(r)
          IN  /\ secretOutcome' = outcome
              /\ installs \/ failAt = "none"
              /\ sshDirMode' = IF installs /\ StepDone("mkdir", failAt)
                                THEN MkdirMode(sshDirMode) ELSE sshDirMode
              /\ keyMode' = IF installs /\ StepDone("chmod", failAt)
                             THEN ChmodKey(OpenForWriteMode(keyMode))
                             ELSE IF installs /\ StepDone("write_key", failAt)
                             THEN OpenForWriteMode(keyMode)
                             ELSE keyMode
              /\ sshConfig' = IF installs /\ StepDone("write_config", failAt)
                               THEN WriteConfig(sshConfig) ELSE sshConfig
              /\ StageReturns("credential",
                              SetupSshKeyResult(variant, outcome, failAt = "none"))
    /\ UNCHANGED <<envState, secretState, host, repo, files, java_home, findLog,
                   buildLog, cloneLog, variant, daemon, driver, hstack,
                   handlersInstalled, deployerDefined, java_process, procs,
                   stagesRun, inDeploy, deployRet, startRet, exitCode, raised,
                   dirExists, jarExists, nsignals, ncalls, curOp, prevOp,
                   sigsThisCall>>

\* The content of target_dir: its other files, and "jar" for the artifact.
DirContent == files \cup (IF jarExists THEN {"jar"} ELSE {})
RepoContent == repo.files \cup (IF repo.jar THEN {"jar"} ELSE {})

\* Mutant: the existing directory is not emptied before the clone.
RemoveTree_Keeps(content) == content

\* rm -rf <target_dir>: what is left of the content.
RemoveTree(content) == {}

\* Mutant: the exit status of rm is not checked.
RemoveChecked_Ignored(rmOk) == TRUE

\* subprocess.run(["rm", "-rf", ...], check=True): a non-zero exit raises.
RemoveChecked(rmOk) == rmOk

\* Mutant: the earlier content is put back when the clone fails.
CloneFailureLeaves_Restores(prior) == prior

\* What target_dir holds after a clone that exited non-zero: nothing of the
\* earlier content comes back, and git removes what it had created.
CloneFailureLeaves(prior) == {}

\* rm -rf of an existing target directory (check=True), then git clone
\* (check=True); a CalledProcessError of either returns False.  An rm that
\* fails may have removed part of the content; a failed clone leaves no
\* directory behind.
clone_repository ==
    /\ MainRuns /\ pc = "clone_run"
    /\ \E rmOk \in BOOLEAN, cloneOk \in BOOLEAN :
          LET rmLog == IF ~dirExists THEN <<>>
                       ELSE IF rmOk THEN <<"rm">> ELSE <<"rm", "rm_nonzero">>
          IN  IF dirExists /\ ~RemoveChecked(rmOk)
              THEN /\ StageReturns("clone", FALSE)
                   /\ cloneLog' = rmLog
                   /\ \E kept \in SUBSET DirContent :
                         /\ files' = kept \ {"jar"}
                         /\ jarExists' = ("jar" \in kept)
                   /\ UNCHANGED dirExists
              ELSE LET left  == IF dirExists /\ rmOk THEN RemoveTree(DirContent)
                                ELSE IF dirExists THEN DirContent ELSE {}
                       after == IF cloneOk THEN left \cup RepoContent
                                ELSE CloneFailureLeaves(DirContent)
                   IN  /\ dirExists \/ rmOk
                       /\ StageReturns("clone", cloneOk)
                       /\ cloneLog' = rmLog \o <<"git_clone">>
                                       \o (IF cloneOk THEN <<>> ELSE <<"clone_nonzero">>)
                       /\ dirExists' = (cloneOk \/ after # {})
                       /\ files' = after \ {"jar"}
                       /\ jarExists' = ("jar" \in after)
    /\ UNCHANGED <<sshModes, envState, secretState, host, repo, java_home, findLog, buildLog, secretOutcome, variant,
                   daemon, driver, hstack, handlersInstalled, deployerDefined,
                   java_process, procs, stagesRun, inDeploy, deployRet, startRet,
                   exitCode, raised, nsignals, ncalls, curOp, prevOp, sigsThisCall>>

\* Mutant: the result of the discovery is not tested.
HomeFound_Always(home) == TRUE

\* if not java_home: ... return False
HomeFound(home) == home # NoPath

\* Mutant: the exit status of "java -version" is not looked at.
VersionCheckPasses_Always(versionOk) == TRUE

\* if java_version_result.returncode != 0: return False
VersionCheckPasses(versionOk) == versionOk

\* Mutant: a system gradle is preferred to the wrapper.
BuildTool_SystemFirst(gradlew, gradle) ==
    IF gradle THEN "gradle" ELSE IF gradlew THEN "gradlew" ELSE "none"

\* if gradlew_path.exists(): the wrapper; else "which gradle": the system
\* gradle if it is there, else no build tool.
BuildTool(gradlew, gradle) ==
    IF gradlew THEN "gradlew" ELSE IF gradle THEN "gradle" ELSE "none"

\* Mutant: the exit status of the build tool is not checked (no check=True).
BuildToolSucceeded_Always(toolOk) == TRUE

\* subprocess.run(build_command, ..., check=True)
BuildToolSucceeded(toolOk) == toolOk

\* The body of build_java_application after the discovery returned home:
\* what it returns and the steps it went through.
BuildRun(home, versionOk, gradlew, gradle, toolOk) ==
    LET exit == IF toolOk THEN "exit_zero" ELSE "exit_nonzero"
        tool == BuildTool(gradlew, gradle)
    IN  IF ~HomeFound(home)
        THEN [ok |-> FALSE, log |-> <<"find">>]
        ELSE IF ~VersionCheckPasses(versionOk)
        THEN [ok |-> FALSE, log |-> <<"find", "version">>]
        ELSE IF tool = "gradlew"
        THEN [ok |-> BuildToolSucceeded(toolOk),
              log |-> <<"find", "version", "chmod_gradlew", "run_gradlew", exit>>]
        ELSE IF tool = "gradle"
        THEN [ok |-> BuildToolSucceeded(toolOk),
              log |-> <<"find", "version", "which_gradle", "run_gradle", exit>>]
        ELSE [ok |-> FALSE, log |-> <<"find", "version", "which_gradle">>]

\* Build variant only.  A build tool that ran may or may not leave an
\* artifact at build/libs/project.jar; it does not remove one.
build_java_application ==
    /\ MainRuns /\ pc = "build_run"
    /\ \E toolOk \in BOOLEAN, producesJar \in BOOLEAN :
          LET f == _find_java_home(host)
              r == BuildRun(f.home, f.host.versionOk, "gradlew" \in files,
                            f.host.gradle, toolOk)
              ran == \E i \in 1..Len(r.log) : r.log[i] \in {"run_gradlew", "run_gradle"}
              env == WithJava(os_environ, f.home)
          IN  /\ host' = f.host
              /\ buildEnv' = IF HomeFound(f.home) THEN env ELSE buildEnv
              /\ os_environ' = IF HomeFound(f.home)
                                THEN EnvironAfterCopy(os_environ, env)
                                ELSE os_environ
              /\ UNCHANGED <<java_port, spawns>>
              /\ java_home' = f.home
              /\ findLog' = f.log
              /\ buildLog' = r.log
              /\ StageReturns("build", r.ok)
              /\ jarExists' = (jarExists \/ (ran /\ producesJar))
    /\ UNCHANGED <<sshModes, secretState, repo, files, secretOutcome, cloneLog, variant, daemon, driver,
                   hstack, handlersInstalled, deployerDefined, java_process, procs,
                   stagesRun, inDeploy, deployRet, startRet, exitCode, raised,
                   dirExists, nsignals, ncalls, curOp, prevOp, sigsThisCall>>

\* Mutant: the verification succeeds without looking.
JarFound_Always(exists) == TRUE

\* jar_path.exists()
JarFound(exists) == exists

verify_jar_exists ==
    /\ MainRuns /\ pc = "verify_run"
    /\ StageReturns("verify", JarFound(jarExists))
    /\ UNCHANGED <<sshModes, envState, secretState, host, repo, files, java_home, findLog, buildLog, secretOutcome,
                   cloneLog, variant, daemon, driver, hstack, handlersInstalled, deployerDefined,
                   java_process, procs, stagesRun, inDeploy, deployRet, startRet,
                   exitCode, raised, dirExists, jarExists, nsignals, ncalls, curOp,
                   prevOp, sigsThisCall>>

-----------------------------------------------------------------------------
(* start_java_process()                                                     *)

\* start_java_process returns b, to deploy() or to the client.
StartReturns(b) ==
    /\ startRet' = IF b THEN "true" ELSE "false"
    /\ IF inDeploy
       THEN StageReturns("launch", b)
       ELSE pc' = "client_idle" /\ results' = results

\* Variant of start_java_process_begin without the second discovery: the
\* launch goes on to Popen with whatever java_home holds.
start_java_process_begin_NoDiscovery ==
    /\ MainRuns /\ pc = "start_enter"
    /\ pc' = "start_spawn"
    /\ UNCHANGED <<startRet, results, host, java_home, findLog>>
    /\ UNCHANGED <<sshModes, envState, secretState, repo, files, buildLog, secretOutcome, cloneLog, variant, daemon,
                   driver, hstack, handlersInstalled, deployerDefined, java_process,
                   procs, stagesRun, inDeploy, deployRet, exitCode, raised, dirExists,
                   jarExists, nsignals, ncalls, curOp, prevOp, sigsThisCall>>

\* The build variant looks the runtime up again (_find_java_home) and
\* returns False without spawning when it finds none.
start_java_process_begin ==
    /\ MainRuns /\ pc = "start_enter"
    /\ IF variant = "simple"
       THEN LET f == _find_java_home(host)
            IN  /\ host' = f.host
                /\ java_home' = f.home
                /\ findLog' = f.log
                /\ IF HomeFound(f.home)
                   THEN pc' = "start_spawn" /\ UNCHANGED <<startRet, results>>
                   ELSE StartReturns(FALSE)
       ELSE /\ pc' = "start_spawn"
            /\ UNCHANGED <<startRet, results, host, java_home, findLog>>
    /\ UNCHANGED <<sshModes, envState, secretState, repo, files, buildLog, secretOutcome, cloneLog, variant, daemon,
                   driver, hstack, handlersInstalled, deployerDefined, java_process,
                   procs, stagesRun, inDeploy, deployRet, exitCode, raised, dirExists,
                   jarExists, nsignals, ncalls, curOp, prevOp, sigsThisCall>>

\* subprocess.Popen([...]) creates the child; the result is not yet stored.
start_java_process_spawn ==
    /\ MainRuns /\ pc = "start_spawn"
    /\ procs' = Append(procs, NewChild)
    /\ LET env == WithJava(os_environ, java_home)
       IN  IF variant = "simple"
           THEN /\ spawns' = Append(spawns, Spawn(env, "target_dir"))
                /\ os_environ' = EnvironAfterCopy(os_environ, env)
           ELSE /\ spawns' = Append(spawns, Spawn(os_environ, "target_dir"))
                /\ os_environ' = os_environ
    /\ pc' = "start_assign"
    /\ UNCHANGED <<java_port, buildEnv>>
    /\ UNCHANGED <<sshModes, secretState, host, repo, files, java_home, findLog, buildLog, secretOutcome,
                   cloneLog, variant, daemon, driver, hstack, handlersInstalled, deployerDefined,
                   java_process, results, stagesRun, inDeploy, deployRet, startRet,
                   exitCode, raised, dirExists, jarExists, nsignals, ncalls, curOp,
                   prevOp, sigsThisCall>>

\* subprocess.Popen raises (no java executable, bad cwd): except Exception
\* returns False and nothing was spawned.
start_java_process_spawn_fails ==
    /\ MainRuns /\ pc = "start_spawn"
    /\ StartReturns(FALSE)
    /\ UNCHANGED <<sshModes, envState, secretState, host, repo, files, java_home, findLog, buildLog, secretOutcome,
                   cloneLog, variant, daemon, driver, hstack, handlersInstalled, deployerDefined,
                   java_process, procs, stagesRun, inDeploy, deployRet, exitCode,
                   raised, dirExists, jarExists, nsignals, ncalls, curOp, prevOp,
                   sigsThisCall>>

\* self.java_process = <the Popen object>; time.sleep(2) follows.
start_java_process_assign ==
    /\ MainRuns /\ pc = "start_assign"
    /\ java_process' = Len(procs)
    /\ pc' = "start_sleep"
    /\ UNCHANGED <<sshModes, envState, secretState, host, repo, files, java_home, findLog, buildLog, secretOutcome,
                   cloneLog, variant, daemon, driver, hstack, handlersInstalled, deployerDefined,
                   procs, results, stagesRun, inDeploy, deployRet, startRet, exitCode,
                   raised, dirExists, jarExists, nsignals, ncalls, curOp, prevOp,
                   sigsThisCall>>

\* Mutant: the test of the liveness check is inverted.
StillRunning_Inverted(ps, c) == ~ps[c].alive

\* self.java_process.poll() is None
StillRunning(ps, c) == ps[c].alive

\* After the sleep: if self.java_process.poll() is None: return True;
\* else communicate() and return False.  self.java_process is left as it is.
start_java_process_check ==
    /\ MainRuns /\ pc = "start_sleep"
    /\ procs' = Poll(procs, java_process)
    /\ StartReturns(StillRunning(procs, java_process))
    /\ UNCHANGED <<sshModes, envState, secretState, host, repo, files, java_home, findLog, buildLog, secretOutcome,
                   cloneLog, variant, daemon, driver, hstack, handlersInstalled, deployerDefined,
                   java_process, stagesRun, inDeploy, deployRet, exitCode, raised, dirExists,
                   jarExists, nsignals, ncalls, curOp, prevOp, sigsThisCall>>

-----------------------------------------------------------------------------
(* stop_java_process(), run by the innermost handler or by the client       *)

\* Mutant: the guard is missing.
StopGuard_Missing(jp) == TRUE

\* if self.java_process:
StopGuard(jp) == jp # 0

\* The guard, and self.java_process.terminate() when it passes.  Calling
\* terminate() on None raises AttributeError.
stop_java_process_terminate ==
    /\ Running /\ Loc = "stop_enter"
    /\ IF ~StopGuard(java_process)
       THEN /\ Goto(StopReturn)
            /\ UNCHANGED <<procs, raised, sigsThisCall>>
       ELSE IF java_process = 0
       THEN /\ Goto("stop_raised")
            /\ raised' = "AttributeError"
            /\ UNCHANGED <<procs, sigsThisCall>>
       ELSE /\ Goto("stop_wait")
            /\ procs' = terminate(procs, java_process)
            /\ sigsThisCall' = sigsThisCall
                                 + (IF SignalSent(procs, java_process) THEN 1 ELSE 0)
            /\ raised' = raised
    /\ UNCHANGED <<sshModes, envState, secretState, host, repo, files, java_home, findLog, buildLog, secretOutcome,
                   cloneLog, variant, daemon, driver, handlersInstalled, deployerDefined,
                   java_process, results, stagesRun, inDeploy, deployRet, startRet,
                   exitCode, dirExists, jarExists, nsignals, ncalls, curOp, prevOp>>

\* self.java_process.wait(timeout=10) returns: the child has exited.
stop_java_process_wait_exited ==
    /\ Running /\ Loc = "stop_wait"
    /\ ~procs[java_process].alive
    /\ procs' = Poll(procs, java_process)
    /\ Goto(StopReturn)
    /\ UNCHANGED <<sshModes, envState, secretState, host, repo, files, java_home, findLog, buildLog, secretOutcome,
                   cloneLog, variant, daemon, driver, handlersInstalled, deployerDefined,
                   java_process, results, stagesRun, inDeploy, deployRet, startRet,
                   exitCode, raised, dirExists, jarExists, nsignals, ncalls, curOp,
                   prevOp, sigsThisCall>>

\* The wait raises TimeoutExpired: the child is still there after the timeout.
WaitTimesOut(ps, c) == ps[c].alive

\* Variant of stop_java_process_wait_timeout that gives up after the timeout:
\* it returns without kill() and without the second wait().
stop_java_process_wait_timeout_GivesUp ==
    /\ Running /\ Loc = "stop_wait"
    /\ WaitTimesOut(procs, java_process)
    /\ Goto(StopReturn)
    /\ UNCHANGED <<sshModes, envState, secretState, host, repo, files, java_home, findLog, buildLog, secretOutcome,
                   cloneLog, variant, daemon, driver, handlersInstalled, deployerDefined,
                   java_process, procs, results, stagesRun, inDeploy, deployRet,
                   startRet, exitCode, raised, dirExists, jarExists, nsignals, ncalls,
                   curOp, prevOp, sigsThisCall>>

\* except subprocess.TimeoutExpired: the handler of the timeout is entered.
stop_java_process_wait_timeout ==
    /\ Running /\ Loc = "stop_wait"
    /\ WaitTimesOut(procs, java_process)
    /\ Goto("stop_kill")
    /\ UNCHANGED <<sshModes, envState, secretState, host, repo, files, java_home, findLog, buildLog, secretOutcome,
                   cloneLog, variant, daemon, driver, handlersInstalled, deployerDefined,
                   java_process, procs, results, stagesRun, inDeploy, deployRet,
                   startRet, exitCode, raised, dirExists, jarExists, nsignals, ncalls,
                   curOp, prevOp, sigsThisCall>>

\* except subprocess.TimeoutExpired: self.java_process.kill()
stop_java_process_kill ==
    /\ Running /\ Loc = "stop_kill"
    /\ procs' = kill(procs, java_process)
    /\ sigsThisCall' = sigsThisCall + (IF SignalSent(procs, java_process) THEN 1 ELSE 0)
    /\ Goto("stop_wait2")
    /\ UNCHANGED <<sshModes, envState, secretState, host, repo, files, java_home, findLog, buildLog, secretOutcome,
                   cloneLog, variant, daemon, driver, handlersInstalled, deployerDefined,
                   java_process, results, stagesRun, inDeploy, deployRet, startRet,
                   exitCode, raised, dirExists, jarExists, nsignals, ncalls, curOp,
                   prevOp>>

\* self.java_process.wait() without a timeout: returns once the child has exited.
stop_java_process_wait_forever ==
    /\ Running /\ Loc = "stop_wait2"
    /\ ~procs[java_process].alive
    /\ procs' = Poll(procs, java_process)
    /\ Goto(StopReturn)
    /\ UNCHANGED <<sshModes, envState, secretState, host, repo, files, java_home, findLog, buildLog, secretOutcome,
                   cloneLog, variant, daemon, driver, handlersInstalled, deployerDefined,
                   java_process, results, stagesRun, inDeploy, deployRet, startRet,
                   exitCode, raised, dirExists, jarExists, nsignals, ncalls, curOp,
                   prevOp, sigsThisCall>>

-----------------------------------------------------------------------------
(* signal_handler                                                           *)

\* SIGINT or SIGTERM arrives: Python runs signal_handler on top of the code
\* that was running, another signal_handler included.
signal_delivered ==
    /\ Running /\ handlersInstalled
    /\ nsignals < MaxSignals
    /\ nsignals' = nsignals + 1
    /\ hstack' = Append(hstack, "h_enter")
    /\ UNCHANGED <<sshModes, envState, secretState, host, repo, files, java_home, findLog, buildLog, secretOutcome,
                   cloneLog, variant, daemon, driver, pc, handlersInstalled, deployerDefined,
                   java_process, procs, results, stagesRun, inDeploy, deployRet,
                   startRet, exitCode, raised, dirExists, jarExists, ncalls, curOp,
                   prevOp, sigsThisCall>>

\* if 'deployer' in globals():
HandlerGuard(defined) == defined

\* if 'deployer' in globals(): deployer.stop_java_process()
signal_handler_begin ==
    /\ Running /\ InHandler /\ Loc = "h_enter"
    /\ Goto(IF HandlerGuard(deployerDefined) THEN "stop_enter" ELSE "h_exit")
    /\ UNCHANGED <<sshModes, envState, secretState, host, repo, files, java_home, findLog, buildLog, secretOutcome,
                   cloneLog, variant, daemon, driver, handlersInstalled, deployerDefined,
                   java_process, procs, results, stagesRun, inDeploy, deployRet,
                   startRet, exitCode, raised, dirExists, jarExists, nsignals, ncalls,
                   curOp, prevOp, sigsThisCall>>

\* The status signal_handler exits with: sys.exit(0).
HandlerExitCode == 0

\* Variant of signal_handler_exit in which the exit is caught like an
\* ordinary exception: the handler frames end and the main thread resumes.
signal_handler_exit_Caught ==
    /\ Running /\ InHandler /\ Loc = "h_exit"
    /\ hstack' = <<>>
    /\ UNCHANGED <<sshModes, envState, secretState, host, repo, files, java_home, findLog, buildLog, secretOutcome,
                   cloneLog, variant, daemon, driver, pc, handlersInstalled, deployerDefined,
                   java_process, procs, results, stagesRun, inDeploy, deployRet,
                   startRet, exitCode, raised, dirExists, jarExists, nsignals, ncalls, curOp,
                   prevOp, sigsThisCall>>

\* sys.exit(0): SystemExit unwinds every handler frame and the main thread;
\* no except clause on the way catches it (they catch Exception,
\* TimeoutExpired, CalledProcessError or KeyboardInterrupt).
signal_handler_exit ==
    /\ Running /\ InHandler /\ Loc = "h_exit"
    /\ exitCode' = HandlerExitCode
    /\ hstack' = <<>>
    /\ pc' = "exited"
    /\ UNCHANGED <<sshModes, envState, secretState, host, repo, files, java_home, findLog, buildLog, secretOutcome,
                   cloneLog, variant, daemon, driver, handlersInstalled, deployerDefined,
                   java_process, procs, results, stagesRun, inDeploy, deployRet,
                   startRet, raised, dirExists, jarExists, nsignals, ncalls, curOp,
                   prevOp, sigsThisCall>>

-----------------------------------------------------------------------------
(* The environment: a child exits, on its own or after a signal.            *)
child_exits ==
    \E c \in 1..Len(procs) :
        /\ procs[c].alive
        /\ procs' = [procs EXCEPT ![c].alive = FALSE]
        /\ UNCHANGED <<sshModes, envState, secretState, host, repo, files, java_home, findLog, buildLog, secretOutcome,
                   cloneLog, variant, daemon, driver, pc, hstack, handlersInstalled,
                       deployerDefined, java_process, results, stagesRun, inDeploy,
                       deployRet, startRet, exitCode, raised, dirExists, jarExists,
                       nsignals, ncalls, curOp, prevOp, sigsThisCall>>

-----------------------------------------------------------------------------
(* The client of one instance                                               *)
ClientCalls(op, entry) ==
    /\ MainRuns /\ driver = "client" /\ pc = "client_idle"
    /\ ncalls < MaxCalls
    /\ ncalls' = ncalls + 1
    /\ prevOp' = curOp
    /\ curOp' = op
    /\ sigsThisCall' = 0
    /\ pc' = entry
    /\ UNCHANGED <<sshModes, envState, secretState, host, repo, files, java_home, findLog, buildLog, secretOutcome,
                   cloneLog, variant, daemon, driver, hstack, handlersInstalled, deployerDefined,
                   java_process, procs, results, stagesRun, inDeploy, deployRet,
                   startRet, exitCode, raised, dirExists, jarExists, nsignals>>

client_calls_deploy == ClientCalls("deploy", "deploy_enter")
client_calls_start == ClientCalls("start", "start_enter")
client_calls_stop == ClientCalls("stop", "stop_enter")

-----------------------------------------------------------------------------
Deploy ==
    \/ deploy_begin
    \/ deploy_call_stage
    \/ deploy_return
    \/ setup_ssh_key
    \/ clone_repository
    \/ build_java_application
    \/ verify_jar_exists

StartJavaProcess ==
    \/ start_java_process_begin
    \/ start_java_process_spawn
    \/ start_java_process_spawn_fails
    \/ start_java_process_assign
    \/ start_java_process_check

StopJavaProcess ==
    \/ stop_java_process_terminate
    \/ stop_java_process_wait_exited
    \/ stop_java_process_wait_timeout
    \/ stop_java_process_kill
    \/ stop_java_process_wait_forever

Next ==
    \/ main_register_signals
    \/ main_create_deployer
    \/ main_after_deploy
    \/ main_daemon_sleep
    \/ Deploy
    \/ StartJavaProcess
    \/ StopJavaProcess
    \/ signal_delivered
    \/ signal_handler_begin
    \/ signal_handler_exit
    \/ child_exits

Spec == Init /\ [][Next]_vars

NextApi ==
    \/ client_calls_deploy
    \/ client_calls_start
    \/ client_calls_stop
    \/ Deploy
    \/ StartJavaProcess
    \/ StopJavaProcess
    \/ child_exits

SpecApi == InitApi /\ [][NextApi]_vars

-----------------------------------------------------------------------------
(* The program on a host whose ~/.ssh and deploy key may already be there.  *)
InitCred ==
    /\ variant \in Variants
    /\ daemon \in BOOLEAN
    /\ driver = "main"
    /\ pc = "main_start"
    /\ hstack = <<>>
    /\ handlersInstalled = FALSE
    /\ deployerDefined = FALSE
    /\ java_process = 0
    /\ procs = <<>>
    /\ results = NoResults
    /\ stagesRun = <<>>
    /\ inDeploy = FALSE
    /\ deployRet = "none"
    /\ startRet = "none"
    /\ exitCode = -1
    /\ raised = "none"
    /\ dirExists = FALSE
    /\ jarExists = FALSE
    /\ nsignals = 0
    /\ ncalls = 0
    /\ curOp = "none"
    /\ prevOp = "none"
    /\ sigsThisCall = 0
    /\ host = (IF variant = "simple"
               THEN [PlainHost EXCEPT !.present = {ProbePaths[1]}]
               ELSE PlainHost)
    /\ repo = [jar |-> TRUE, files |-> {"gradlew"}]
    /\ files = {}
    /\ java_home = NoPath
    /\ findLog = <<>>
    /\ buildLog = <<>>
    /\ secretOutcome = "none"
    /\ cloneLog = <<>>
    /\ sshDirMode \in DirModes
    /\ keyMode \in (IF sshDirMode = "absent" THEN {"absent"} ELSE KeyModes)
    /\ os_environ = BaseEnviron
    /\ java_port = DefaultPort
    /\ buildEnv = NoEnv
    /\ spawns = <<>>
    /\ fetches = <<>>
    /\ remoteReads = 0
    /\ keyFile = NoSecret
    /\ sshConfig = "absent"

SpecCred == InitCred /\ [][Next]_vars

-----------------------------------------------------------------------------
(* The secrets-manager functions and the credential stage on their own,     *)
(* called one after the other against a secret store that answers anything. *)
MaxFetches == 2

InitSecrets ==
    /\ variant \in Variants
    /\ daemon = FALSE
    /\ driver = "secrets"
    /\ pc = "secrets_idle"
    /\ hstack = <<>>
    /\ handlersInstalled = FALSE
    /\ deployerDefined = TRUE
    /\ java_process = 0
    /\ procs = <<>>
    /\ results = NoResults
    /\ stagesRun = <<>>
    /\ inDeploy = FALSE
    /\ deployRet = "none"
    /\ startRet = "none"
    /\ exitCode = -1
    /\ raised = "none"
    /\ dirExists = FALSE
    /\ jarExists = FALSE
    /\ nsignals = 0
    /\ ncalls = 0
    /\ curOp = "none"
    /\ prevOp = "none"
    /\ sigsThisCall = 0
    /\ host = PlainHost
    /\ repo = [jar |-> FALSE, files |-> {}]
    /\ files = {}
    /\ java_home = NoPath
    /\ findLog = <<>>
    /\ buildLog = <<>>
    /\ secretOutcome = "none"
    /\ cloneLog = <<>>
    /\ sshDirMode = "absent"
    /\ keyMode = "absent"
    /\ os_environ = BaseEnviron
    /\ java_port = DefaultPort
    /\ buildEnv = NoEnv
    /\ spawns = <<>>
    /\ fetches = <<>>
    /\ remoteReads = 0
    /\ keyFile = NoSecret
    /\ sshConfig = "absent"

\* One call, as the history keeps it: the function, what the store answered,
\* the filesystem call that raised, the outcome and the emitted events.
Fetch(fn, a, failAt, ret, log) ==
    [fn |-> fn, answer |-> a, failAt |-> failAt, ret |-> ret, log |-> log]

\* get_secret(secret_name, region_name)
get_secret_called ==
    /\ driver = "secrets" /\ Len(fetches) < MaxFetches
    /\ \E a \in StoreAnswers :
          /\ fetches' = Append(fetches,
                 Fetch("get_secret", a, "none", get_secret_outcome(variant, a),
                       get_secret_log(variant, a)))
          /\ remoteReads' = remoteReads + RemoteReads(a)
    /\ UNCHANGED <<envState, host, repo, files, java_home, findLog, buildLog,
                   secretOutcome, cloneLog, variant, daemon, driver, pc, hstack,
                   handlersInstalled, deployerDefined, java_process, procs,
                   results, stagesRun, inDeploy, deployRet, startRet, exitCode,
                   raised, dirExists, jarExists, nsignals, ncalls, curOp, prevOp,
                   sigsThisCall, sshModes, keyFile>>

\* get_secret_as_json / get_secret_dict: one call of get_secret, then the
\* parse.
get_secret_as_json_called ==
    /\ driver = "secrets" /\ Len(fetches) < MaxFetches
    /\ \E a \in StoreAnswers :
          LET ret == get_secret_as_json(variant, a)
              parsing == a.kind = "ok" /\ a.secret # NoSecret
          IN  /\ fetches' = Append(fetches,
                     Fetch("get_secret_as_json", a, "none", ret,
                           get_secret_log(variant, a)
                           \o (IF ~parsing THEN <<>>
                               ELSE IF ret.parsed # "none"
                               THEN << PlainEvent("Secret parsed as JSON successfully") >>
                               ELSE << ErrorEvent("Failed to parse secret as JSON",
                                                  "JSONDecodeError") >>)))
              /\ remoteReads' = remoteReads + RemoteReads(a)
    /\ UNCHANGED <<envState, host, repo, files, java_home, findLog, buildLog,
                   secretOutcome, cloneLog, variant, daemon, driver, pc, hstack,
                   handlersInstalled, deployerDefined, java_process, procs,
                   results, stagesRun, inDeploy, deployRet, startRet, exitCode,
                   raised, dirExists, jarExists, nsignals, ncalls, curOp, prevOp,
                   sigsThisCall, sshModes, keyFile>>

\* The events setup_ssh_key emits around its call of get_secret.
setup_ssh_key_log(v, a, failAt) ==
    LET g == get_secret_outcome(v, a)
    IN  << PlainEvent("Retrieving SSH key from AWS Secrets Manager") >>
        \o get_secret_log(v, a)
        \o (IF g.how = "raise"
            THEN << ErrorEvent("Failed to setup SSH key", a.kind) >>
            ELSE IF g.isNone \/ g.text = NoSecret
            THEN << PlainEvent("No SSH key retrieved from Secrets Manager") >>
            ELSE (IF StepDone("mkdir", failAt)
                  THEN << PlainEvent("Writing SSH key to file") >> ELSE <<>>)
                 \o (IF failAt = "none"
                     THEN << PlainEvent("SSH key setup completed successfully") >>
                     ELSE << ErrorEvent("Failed to setup SSH key", failAt) >>))

\* setup_ssh_key() with the secret the store holds: the fetch, then the
\* key file and its modes.
setup_ssh_key_called ==
    /\ driver = "secrets" /\ Len(fetches) < MaxFetches
    /\ \E a \in StoreAnswers, failAt \in FsFailures :
          LET installs == KeyRetrieved(get_secret(variant, AnswerOutcome(a)))
              ok == SetupSshKeyResult(variant, AnswerOutcome(a), failAt = "none")
          IN  /\ installs \/ failAt = "none"
              /\ fetches' = Append(fetches,
                     Fetch("setup_ssh_key", a, failAt,
                           IF ok THEN Returned(<<"True">>) ELSE Returned(<<"False">>),
                           setup_ssh_key_log(variant, a, failAt)))
              /\ remoteReads' = remoteReads + RemoteReads(a)
              /\ sshDirMode' = IF installs /\ StepDone("mkdir", failAt)
                                THEN MkdirMode(sshDirMode) ELSE sshDirMode
              /\ keyMode' = IF installs /\ StepDone("chmod", failAt)
                             THEN ChmodKey(OpenForWriteMode(keyMode))
                             ELSE IF installs /\ StepDone("write_key", failAt)
                             THEN OpenForWriteMode(keyMode)
                             ELSE keyMode
              /\ sshConfig' = IF installs /\ StepDone("write_config", failAt)
                               THEN WriteConfig(sshConfig) ELSE sshConfig
              /\ keyFile' = IF installs /\ StepDone("write_key", failAt)
                             THEN a.secret ELSE keyFile
    /\ UNCHANGED <<envState, host, repo, files, java_home, findLog, buildLog,
                   secretOutcome, cloneLog, variant, daemon, driver, pc, hstack,
                   handlersInstalled, deployerDefined, java_process, procs,
                   results, stagesRun, inDeploy, deployRet, startRet, exitCode,
                   raised, dirExists, jarExists, nsignals, ncalls, curOp, prevOp,
                   sigsThisCall>>

NextSecrets ==
    \/ get_secret_called
    \/ get_secret_as_json_called
    \/ setup_ssh_key_called

SpecSecrets == InitSecrets /\ [][NextSecrets]_vars

-----------------------------------------------------------------------------
(* _find_java_home on its own, on every host.                               *)
InitFind ==
    /\ variant = "simple"
    /\ daemon = FALSE
    /\ driver = "find"
    /\ pc = "find_idle"
    /\ hstack = <<>>
    /\ handlersInstalled = FALSE
    /\ deployerDefined = TRUE
    /\ java_process = 0
    /\ procs = <<>>
    /\ results = NoResults
    /\ stagesRun = <<>>
    /\ inDeploy = FALSE
    /\ deployRet = "none"
    /\ startRet = "none"
    /\ exitCode = -1
    /\ raised = "none"
    /\ dirExists = FALSE
    /\ jarExists = FALSE
    /\ nsignals = 0
    /\ ncalls = 0
    /\ curOp = "none"
    /\ prevOp = "none"
    /\ sigsThisCall = 0
    /\ host \in AllHosts
    /\ repo = [jar |-> FALSE, files |-> {}]
    /\ files = {}
    /\ java_home = NoPath
    /\ findLog = <<>>
    /\ buildLog = <<>>
    /\ secretOutcome = "none"
    /\ cloneLog = <<>>
    /\ sshDirMode = "absent"
    /\ keyMode = "absent"
    /\ os_environ = BaseEnviron
    /\ java_port = DefaultPort
    /\ buildEnv = NoEnv
    /\ spawns = <<>>
    /\ fetches = <<>>
    /\ remoteReads = 0
    /\ keyFile = NoSecret
    /\ sshConfig = "absent"

\* java_home = self._find_java_home()
find_java_home_called ==
    /\ driver = "find" /\ pc = "find_idle"
    /\ LET f == _find_java_home(host)
       IN  /\ host' = f.host
           /\ java_home' = f.home
           /\ findLog' = f.log
    /\ pc' = "find_done"
    /\ UNCHANGED <<sshModes, envState, secretState, repo, files, buildLog, secretOutcome, cloneLog, variant, daemon,
                   driver, hstack, handlersInstalled, deployerDefined, java_process,
                   procs, results, stagesRun, inDeploy, deployRet, startRet, exitCode,
                   raised, dirExists, jarExists, nsignals, ncalls, curOp, prevOp,
                   sigsThisCall>>

NextFind == find_java_home_called

SpecFind == InitFind /\ [][NextFind]_vars

-----------------------------------------------------------------------------
(* Properties                                                               *)

AnyStageFailed == \E s \in Stages : results[s] = "fail"
InProgress == {s \in Range(stagesRun) : results[s] = "none"}
AliveChildren == {c \in 1..Len(procs) : procs[c].alive}

\* The order of the stages as the specification of the system gives it.
PipelineOrder(v) ==
    IF v = "simple"
    THEN <<"credential", "clone", "build", "verify", "launch">>
    ELSE <<"credential", "clone", "verify", "launch">>

\* C1: within one deploy() the stages start in the order credential, clone,
\* (build, build variant only), verify, launch; a stage starts only after the
\* stage before it has returned success; at most one stage is in progress.
C1_StagesInFixedOrder ==
    /\ Len(stagesRun) <= Len(PipelineOrder(variant))
    /\ \A i \in 1..Len(stagesRun) :
          /\ stagesRun[i] = PipelineOrder(variant)[i]
          /\ i > 1 => results[stagesRun[i - 1]] = "ok"
    /\ Cardinality(InProgress) <= 1

\* All five stages of the build variant ran and deploy() returned True.
C1_Witness ==
    /\ variant = "simple"
    /\ stagesRun = <<"credential", "clone", "build", "verify", "launch">>
    /\ deployRet = "true"

\* C2: once a stage has failed, no later stage is started, no stage is run a
\* second time, and deploy() returns False when it returns.
C2_FailureIsTerminal ==
    /\ \A i \in 1..Len(stagesRun) :
          results[stagesRun[i]] = "fail" => i = Len(stagesRun)
    /\ \A i, j \in 1..Len(stagesRun) : stagesRun[i] = stagesRun[j] => i = j
    /\ AnyStageFailed => deployRet # "true"
    /\ (AnyStageFailed /\ ~inDeploy) => deployRet = "false"

\* The clone failed and deploy() has returned False.
C2_Witness ==
    /\ results["clone"] = "fail"
    /\ deployRet = "false"
    /\ pc = "main_after_deploy"

\* C3: with no file at build/libs/project.jar when the verification runs,
\* verify_jar_exists returns False, the launch stage is never reached, no
\* child is spawned and java_process stays None.
C3_NoArtifactNoLaunch ==
    (results["verify"] # "none" /\ ~jarExists) =>
        /\ results["verify"] = "fail"
        /\ "launch" \notin Range(stagesRun)
        /\ procs = <<>>
        /\ java_process = 0

\* The clone succeeded, the artifact is absent and deploy() returned False.
C3_Witness ==
    /\ results["clone"] = "ok"
    /\ ~jarExists
    /\ results["verify"] = "fail"
    /\ deployRet = "false"

\* C4: when the child had exited at the liveness check, start_java_process
\* returns False and java_process does not refer to the exited child.
C4_FailedLaunchLeavesNoHandle ==
    startRet = "false" => java_process = 0

\* C5: stop_java_process called twice in succession, or before any launch,
\* raises nothing, and the second call (as the call before any launch) sends
\* no signal.
C5_StopIdempotent ==
    /\ raised = "none"
    /\ (curOp = "stop" /\ prevOp = "stop") => sigsThisCall = 0
    /\ (curOp = "stop" /\ java_process = 0) => sigsThisCall = 0

\* Two calls in succession on a launched child: the first sent the request,
\* the second has returned.
C5_Witness ==
    /\ curOp = "stop" /\ prevOp = "stop" /\ pc = "client_idle"
    /\ java_process # 0
    /\ procs[java_process].terms = 1

\* C6: whatever the interleaving of signals with the main sequence, a
\* supervised child is sent the termination request at most once.
C6_TerminationTriggeredOnce ==
    \A c \in 1..Len(procs) : procs[c].terms <= 1

\* C7: a signal handled while java_process is None (the deployer not yet
\* created, or a stage before the assignment in progress) sends no
\* terminate and no kill, and the termination routine raises nothing.
C7_SignalBeforeHandleIsNoOp ==
    java_process = 0 =>
        /\ raised = "none"
        /\ \A c \in 1..Len(procs) : procs[c].terms = 0 /\ procs[c].kills = 0

\* The handler ran stop_java_process on a deployer without a handle, while a
\* stage was in progress, and the program has exited.
C7_Witness ==
    /\ exitCode = 0
    /\ deployerDefined
    /\ java_process = 0
    /\ InProgress # {}

\* C8: the forceful kill is sent only by the step that follows a timed-out
\* wait, only to a child that was sent the graceful request before, and the
\* routine then waits without a timeout; the timed-out wait is one that found
\* the child still there.
C8_GracefulBeforeForceful ==
    /\ [][\A c \in 1..Len(procs) :
             procs'[c].kills > procs[c].kills =>
                /\ Loc = "stop_kill"
                /\ c = java_process
                /\ procs[c].terms >= 1
                /\ Loc' = "stop_wait2"]_vars
    /\ [][(Loc' = "stop_kill" /\ Loc # "stop_kill") =>
             (Loc = "stop_wait" /\ procs[java_process].alive)]_vars

\* A child was killed after the graceful request and the handler has finished.
C8_Witness ==
    /\ exitCode = 0
    /\ java_process # 0
    /\ procs[java_process].terms >= 1
    /\ procs[java_process].kills >= 1

\* C9: at most one child started by the instance is alive at any time.
C9_AtMostOneAlive == Cardinality(AliveChildren) <= 1

\* C10: the program exits with status 1 whenever a stage has failed and with
\* status 0 after a successful deployment.
C10_ExitStatus ==
    exitCode # -1 =>
        /\ AnyStageFailed => exitCode = 1
        /\ deployRet = "true" => exitCode = 0

\* C11: with --daemon, after a successful deployment the program does not
\* exit on its own: it has exited only if an interrupt or termination signal
\* was delivered, and then the supervised child has been terminated and the
\* exit status is 0.
C11_DaemonExitsOnlyOnSignal ==
    (daemon /\ deployRet = "true" /\ exitCode # -1) =>
        /\ nsignals >= 1
        /\ exitCode = 0
        /\ java_process # 0
        /\ ~procs[java_process].alive
        /\ procs[java_process].terms + procs[java_process].kills >= 1
           \/ procs[java_process].reaped

\* The daemon was signalled once after its deployment succeeded, its child
\* was sent a termination request, and the program has exited.
C11_Witness ==
    /\ daemon /\ deployRet = "true"
    /\ exitCode = 0
    /\ nsignals = 1
    /\ procs[java_process].terms = 1
    /\ ~procs[java_process].alive

BuildToolSteps == {"chmod_gradlew", "which_gradle", "run_gradlew", "run_gradle"}

C14_HealthyRunSupervises ==
    /\ [][(/\ pc = "start_sleep" /\ hstack = <<>> /\ pc' # pc
           /\ secretOutcome = "key"
           /\ results["clone"] = "ok"
           /\ jarExists
           /\ procs[java_process].alive)
          => (/\ results'["launch"] = "ok"
              /\ startRet' = "true"
              /\ java_process' = java_process
              /\ procs'[java_process].alive)]_vars
    /\ [](results["launch"] = "ok" =>
            /\ java_process # 0
            /\ inDeploy \/ deployRet = "true")

\* The traced variant supervises a live child in its daemon loop.
C14_Witness ==
    /\ variant = "traced"
    /\ secretOutcome = "key"
    /\ results["clone"] = "ok"
    /\ repo.jar /\ jarExists
    /\ deployRet = "true"
    /\ pc = "daemon_loop" /\ nsignals = 0
    /\ java_process # 0
    /\ procs[java_process].alive

\* C15: whatever the target directory held before, after a successful
\* clone_repository it exists and holds exactly the content of the cloned
\* repository: nothing of the earlier content is left.
C15_CloneReplacesContent ==
    (results["clone"] = "ok" /\ results["build"] = "none") =>
        /\ dirExists
        /\ files = repo.files
        /\ jarExists = repo.jar

\* An existing directory was removed and a repository without wrapper and
\* artifact was cloned in its place.
C15_Witness ==
    /\ results["clone"] = "ok" /\ results["build"] = "none"
    /\ cloneLog = <<"rm", "git_clone">>
    /\ repo.files = {} /\ ~repo.jar
    /\ files = {} /\ ~jarExists

\* C16: when at least one path of the probe list holds bin/java,
\* _find_java_home returns the first such path in list order, for every
\* subset of the list that is present, and neither the search path nor the
\* install is consulted.
C16_FirstProbeHitWins ==
    [][(pc = "find_idle" /\ pc' = "find_done" /\ host.present # {}) =>
          /\ \E i \in 1..Len(ProbePaths) :
                /\ ProbePaths[i] \in host.present
                /\ \A k \in 1..(i - 1) : ProbePaths[k] \notin host.present
                /\ java_home' = ProbePaths[i]
          /\ findLog' = <<"probe">>
          /\ host' = host]_vars

\* Several probe paths are present, the search path has a runtime too, and
\* the third path of the list, the first present one, was returned.
C16_Witness ==
    /\ pc = "find_done"
    /\ ProbePaths[1] \notin host.present
    /\ ProbePaths[2] \notin host.present
    /\ ProbePaths[3] \in host.present
    /\ ProbePaths[5] \in host.present
    /\ host.which # NoPath
    /\ java_home = ProbePaths[3]
    /\ findLog = <<"probe">>

\* The strategies of the discovery in the order the code goes through them.
DiscoveryOrder == <<"probe", "which", "dump", "install", "reprobe", "rewhich">>

\* C17: the discovery goes through its strategies in the order probe list,
\* search path, diagnostic dump, install, re-probe, and on every host it
\* reports that no runtime was found only after the install was attempted.
C17_InstallBeforeNotFound ==
    pc = "find_done" =>
        /\ Len(findLog) <= Len(DiscoveryOrder)
        /\ \A i \in 1..Len(findLog) : findLog[i] = DiscoveryOrder[i]
        /\ java_home = NoPath => "install" \in Range(findLog)

\* C18: when the runtime version query exits non-zero,
\* build_java_application returns False and no build tool is selected or
\* invoked afterwards.
C18_VersionCheckIsHard ==
    (/\ variant = "simple"
     /\ "version" \in Range(buildLog)
     /\ ~host.versionOk) =>
        /\ results["build"] = "fail"
        /\ buildLog = <<"find", "version">>
        /\ Range(stagesRun) \cap {"verify", "launch"} = {}

\* A runtime was found, its version query failed, and the build stage failed
\* although the wrapper and a system gradle were both there.
C18_Witness ==
    /\ variant = "simple"
    /\ java_home # NoPath
    /\ ~host.versionOk
    /\ host.gradle /\ "gradlew" \in files
    /\ buildLog = <<"find", "version">>
    /\ results["build"] = "fail"
    /\ deployRet = "false"

\* C19: once the runtime is verified, the gradlew wrapper of the repository
\* is made executable and used whenever it exists, even if a system gradle is
\* installed; the system gradle is used only when the wrapper is absent; with
\* neither, the build fails without any build tool being invoked.
C19_WrapperPreferred ==
    (/\ variant = "simple"
     /\ "version" \in Range(buildLog)
     /\ host.versionOk) =>
        /\ "gradlew" \in files =>
              /\ {"chmod_gradlew", "run_gradlew"} \subseteq Range(buildLog)
              /\ Range(buildLog) \cap {"which_gradle", "run_gradle"} = {}
        /\ ("gradlew" \notin files /\ host.gradle) =>
              /\ "run_gradle" \in Range(buildLog)
              /\ "run_gradlew" \notin Range(buildLog)
        /\ ("gradlew" \notin files /\ ~host.gradle) =>
              /\ results["build"] = "fail"
              /\ Range(buildLog) \cap {"run_gradlew", "run_gradle"} = {}
              /\ Range(stagesRun) \cap {"verify", "launch"} = {}

\* The wrapper was run on a host that has a system gradle as well.
C19_Witness ==
    /\ variant = "simple"
    /\ host.versionOk /\ host.gradle
    /\ "gradlew" \in files
    /\ "run_gradlew" \in Range(buildLog)
    /\ results["build"] = "ok"

\* C20: when the build tool exits non-zero, build_java_application returns
\* False and the deployment is aborted before the verification and the
\* launch, whether or not an artifact file exists in the cloned content.
C20_BuildFailureAborts ==
    (variant = "simple" /\ "exit_nonzero" \in Range(buildLog)) =>
        /\ results["build"] = "fail"
        /\ Range(stagesRun) \cap {"verify", "launch"} = {}
        /\ procs = <<>>
        /\ ~inDeploy => deployRet = "false"

\* The build tool failed on a repository that ships an artifact, and deploy()
\* returned False.
C20_Witness ==
    /\ variant = "simple"
    /\ "exit_nonzero" \in Range(buildLog)
    /\ repo.jar /\ jarExists
    /\ results["build"] = "fail"
    /\ deployRet = "false"

\* C21: whenever the clone stage has started, the key file has mode 0600 and
\* the SSH directory has mode 0700, also when either existed before with
\* another mode.
C21_ModesBeforeStaging ==
    "clone" \in Range(stagesRun) =>
        /\ keyMode = "0600"
        /\ sshDirMode = "0700"

\* The calls of the history made through one of the given functions.
FetchesOf(fns) == {i \in 1..Len(fetches) : fetches[i].fn \in fns}

\* C22: the secret is never logged.  Two fetches of the deploy key (by
\* get_secret or by setup_ssh_key) that differ only in the secret string, of
\* equal length, emit the same sequence of events; no event carries the
\* secret; and the key file holds nothing but a fetched secret.
C22_SecretNeverLogged ==
    LET keyFetches == FetchesOf({"get_secret", "setup_ssh_key"})
    IN  /\ \A i \in keyFetches, j \in keyFetches :
              (/\ fetches[i].fn = fetches[j].fn
               /\ fetches[i].failAt = fetches[j].failAt
               /\ fetches[i].answer.kind = "ok"
               /\ fetches[j].answer.kind = "ok"
               /\ Len(fetches[i].answer.secret) = Len(fetches[j].answer.secret))
              => fetches[i].log = fetches[j].log
        /\ \A i \in keyFetches : \A k \in 1..Len(fetches[i].log) :
              fetches[i].answer.secret # NoSecret
              => fetches[i].log[k].text # fetches[i].answer.secret
        /\ keyFile # NoSecret =>
              \E i \in FetchesOf({"setup_ssh_key"}) : keyFile = fetches[i].answer.secret

\* setup_ssh_key ran twice with two different keys of the same length; the
\* second key is in the key file.
C22_Witness ==
    /\ Len(fetches) = 2
    /\ fetches[1].fn = "setup_ssh_key" /\ fetches[2].fn = "setup_ssh_key"
    /\ fetches[1].failAt = "none" /\ fetches[2].failAt = "none"
    /\ fetches[1].answer.secret = <<"txt", "txt">>
    /\ fetches[2].answer.secret = <<"{", "}">>
    /\ fetches[1].log = fetches[2].log
    /\ keyFile = <<"{", "}">>

\* The error classes of the taxonomy.
ErrorClass(kind) ==
    CASE kind = "InternalServiceErrorException" -> "transient"
      [] kind = "ResourceNotFoundException" -> "missing_secret"
      [] kind = "NoCredentialsError" -> "missing_credentials"
      [] OTHER -> "unclassified"

\* C23: what get_secret hands to its caller tells the error classes apart:
\* two failures of different classes never yield the same outcome, and an
\* unclassified error is propagated as it is.
C23_ErrorClassesDistinct ==
    LET failed == {i \in FetchesOf({"get_secret"}) : fetches[i].answer.kind # "ok"}
    IN  /\ \A i \in failed, j \in failed :
              ErrorClass(fetches[i].answer.kind) # ErrorClass(fetches[j].answer.kind)
              => fetches[i].ret # fetches[j].ret
        /\ \A i \in failed :
              ErrorClass(fetches[i].answer.kind) = "unclassified"
              => fetches[i].ret = Raises(fetches[i].answer.kind)

\* C26: the structured fetch returns a key-value mapping for a secret that
\* is well-formed JSON and fails (raises, or returns None) for one that is
\* not.
C26_StructuredFetch ==
    \A i \in FetchesOf({"get_secret_as_json"}) :
        (fetches[i].answer.kind = "ok" /\ fetches[i].answer.secret # NoSecret) =>
            IF json_loads(fetches[i].answer.secret) # "none"
            THEN fetches[i].ret.how = "return" /\ fetches[i].ret.parsed = "dict"
            ELSE fetches[i].ret.how = "raise" \/ fetches[i].ret.isNone

\* C27: every call of get_secret issues exactly one remote read, whatever
\* the store answers and whatever was fetched before.
C27_OneReadPerCall == remoteReads = Len(fetches)

\* Two calls in a row met a transient service error: two reads.
C27_Witness ==
    /\ Len(fetches) = 2
    /\ fetches[1].fn = "get_secret" /\ fetches[2].fn = "get_secret"
    /\ fetches[1].answer.kind = "InternalServiceErrorException"
    /\ fetches[2].answer.kind = "InternalServiceErrorException"
    /\ remoteReads = 2

\* C24: every child is started with the target directory as its working
\* directory and with an environment that contains the configured port.
C24_PortInChildEnvironment ==
    \A i \in 1..Len(spawns) :
        /\ spawns[i].cwd = "target_dir"
        /\ \E n \in DOMAIN spawns[i].env : spawns[i].env[n] = << <<java_port>> >>

\* C25: os.environ of the orchestrator stays as it was when the program
\* started: JAVA_HOME and PATH are changed only in the environments handed
\* to the child processes of the build and of the launch, whether these
\* stages succeed or fail.
C25_OwnEnvironmentUnchanged ==
    /\ os_environ = BaseEnviron
    /\ buildEnv # NoEnv =>
          /\ "JAVA_HOME" \in DOMAIN buildEnv
          /\ buildEnv["PATH"] # os_environ["PATH"]
    /\ \A i \in 1..Len(spawns) :
          variant = "simple" =>
              /\ "JAVA_HOME" \in DOMAIN spawns[i].env
              /\ spawns[i].env["PATH"] # os_environ["PATH"]

\* The build handed a changed environment to its child processes and the
\* launch to its child, which then failed; os.environ is as before.
C25_Witness ==
    /\ variant = "simple"
    /\ "JAVA_HOME" \in DOMAIN buildEnv
    /\ Len(spawns) >= 1
    /\ "JAVA_HOME" \in DOMAIN spawns[1].env
    /\ startRet = "false"
    /\ os_environ = BaseEnviron

\* C28: when the removal of an existing target directory fails,
\* clone_repository returns False and git clone is never executed.
C28_RemovalFailureStopsClone ==
    "rm_nonzero" \in Range(cloneLog) =>
        /\ results["clone"] = "fail"
        /\ "git_clone" \notin Range(cloneLog)
        /\ dirExists
        /\ ~inDeploy => deployRet = "false"

\* The removal failed and deploy() has returned False.
C28_Witness ==
    /\ cloneLog = <<"rm", "rm_nonzero">>
    /\ results["clone"] = "fail"
    /\ deployRet = "false"

\* C29: when git clone exits non-zero after an existing target directory was
\* removed, clone_repository returns False and nothing of the earlier
\* content is there: the directory stays removed.
C29_NoRollback ==
    "clone_nonzero" \in Range(cloneLog) =>
        /\ results["clone"] = "fail"
        /\ ~dirExists
        /\ files = {} /\ ~jarExists
        /\ ~inDeploy => deployRet = "false"

\* The directory was removed, the clone failed, deploy() returned False.
C29_Witness ==
    /\ cloneLog = <<"rm", "git_clone", "clone_nonzero">>
    /\ results["clone"] = "fail"
    /\ ~dirExists
    /\ deployRet = "false"

\* C30: when the program exits after a shutdown signal, every child it
\* spawned has been sent a termination request or has already exited: no
\* child keeps running untouched, wherever the signal arrived after the
\* spawn.
C30_SignalReachesSpawnedChild ==
    (exitCode # -1 /\ nsignals >= 1) =>
        \A c \in 1..Len(procs) : procs[c].terms >= 1 \/ ~procs[c].alive

\* C31: the program exits with status 0 only if the launch stage had
\* completed successfully, whenever a signal arrives.
C31_ExitZeroOnlyAfterLaunch ==
    exitCode = 0 => results["launch"] = "ok"

-----------------------------------------------------------------------------
(* Progress of the handler and of stop_java_process                         *)

\* A child that was sent SIGKILL exits: the assumption under which
\* self.java_process.wait() after kill() returns.
KilledChildExits ==
    \E c \in 1..Len(procs) :
        /\ procs[c].alive /\ procs[c].kills > 0
        /\ procs' = [procs EXCEPT ![c].alive = FALSE]
        /\ UNCHANGED <<sshModes, envState, secretState, host, repo, files, java_home, findLog, buildLog, secretOutcome,
                       cloneLog, variant, daemon, driver, pc, hstack, handlersInstalled,
                       deployerDefined, java_process, results, stagesRun, inDeploy,
                       deployRet, startRet, exitCode, raised, dirExists, jarExists,
                       nsignals, ncalls, curOp, prevOp, sigsThisCall>>

\* The interpreter keeps running the code it is in: signal_handler and the
\* stop_java_process it calls take their next step (wait(timeout=10) returns
\* after ten seconds at the latest), and a killed child exits.
HandlerProgress ==
    /\ WF_vars(signal_handler_begin)
    /\ WF_vars(signal_handler_exit)
    /\ WF_vars(StopJavaProcess)
    /\ WF_vars(KilledChildExits)

SpecCredFair == SpecCred /\ HandlerProgress

\* C32: once a shutdown signal has been delivered to the handler the main
\* sequence starts no further stage and records no further result, the only
\* move of the main thread is the exit, and the program terminates.
C32_SignalEndsMainSequence ==
    /\ [][nsignals >= 1 =>
            /\ stagesRun' = stagesRun
            /\ results' = results
            /\ Len(procs') = Len(procs)
            /\ (pc' # pc => pc' = "exited" /\ exitCode' = HandlerExitCode)]_vars
    /\ (nsignals >= 1) ~> (pc = "exited" /\ hstack = <<>>)

\* A signal arrived during the build stage, the handler stopped nothing and
\* exited, and the verify and launch stages never started.
C32_Witness ==
    /\ nsignals >= 1 /\ pc = "exited" /\ exitCode = HandlerExitCode
    /\ stagesRun = <<"credential", "clone", "build">>
    /\ results["build"] = "none"

\* Calls of one instance on the default port, for the progress of
\* stop_java_process.
InitStop == InitApi /\ java_port = DefaultPort

\* stop_java_process takes its next step and a killed child exits.
SpecStopFair ==
    /\ InitStop /\ [][NextApi]_vars
    /\ WF_vars(StopJavaProcess)
    /\ WF_vars(KilledChildExits)

\* The positions inside stop_java_process.
StopLocs == {"stop_enter", "stop_wait", "stop_kill", "stop_wait2"}

\* C33: every call of stop_java_process returns, and when it returns with a
\* launched process in java_process that process has exited.
C33_StopTerminates ==
    /\ [][(pc \in StopLocs /\ pc' \notin StopLocs /\ java_process # 0)
            => (pc' = StopReturn /\ ~procs'[java_process'].alive)]_vars
    /\ (pc \in StopLocs) ~> (pc = "client_idle")

\* stop_java_process returned after the forceful path: the child outlived
\* the timeout, was killed and has exited.
C33_Witness ==
    /\ driver = "client" /\ pc = "client_idle" /\ curOp = "stop"
    /\ java_process # 0
    /\ procs[java_process].kills > 0
    /\ ~procs[java_process].alive

\* main() goes on after deploy() has returned, and the handler makes progress.
SpecMainFair == SpecCredFair /\ WF_vars(main_after_deploy)

\* C34: without --daemon, after a successful deployment the program exits
\* with status 0, and unless a signal arrived before main returned this
\* invocation has sent the child no termination request: the exit of main()
\* leaves every child as it is.
C34_PlainRunLeavesChild ==
    /\ []((~daemon /\ deployRet = "true" /\ exitCode # -1) =>
            /\ exitCode = 0
            /\ java_process # 0
            /\ nsignals = 0 => /\ procs[java_process].terms = 0
                               /\ procs[java_process].kills = 0)
    /\ [][(~daemon /\ MainRuns /\ pc = "main_after_deploy" /\ pc' = "exited")
            => procs' = procs]_vars
    /\ (~daemon /\ deployRet = "true") ~> (exitCode = 0)

\* A run without --daemon deployed, no signal arrived, and the program has
\* exited with status 0 while the child it launched is still running.
C34_Witness ==
    /\ ~daemon /\ deployRet = "true" /\ nsignals = 0
    /\ pc = "exited" /\ exitCode = 0
    /\ procs[java_process].alive
    /\ procs[java_process].terms = 0 /\ procs[java_process].kills = 0

\* C35: when the secret fetch of setup_ssh_key fails or returns an empty
\* value, setup_ssh_key returns False and writes nothing: the SSH directory,
\* the key file (mode and content) and the transport config are unchanged.
C35_FailedFetchWritesNothing ==
    [][(/\ Len(fetches') = Len(fetches) + 1
        /\ fetches'[Len(fetches')].fn = "setup_ssh_key"
        /\ AnswerOutcome(fetches'[Len(fetches')].answer) # "key")
       => (/\ fetches'[Len(fetches')].ret = Returned(<<"False">>)
           /\ sshDirMode' = sshDirMode
           /\ keyMode' = keyMode
           /\ keyFile' = keyFile
           /\ sshConfig' = sshConfig)]_vars

\* A first setup_ssh_key installed a key and the config; a second one, whose
\* fetch failed, returned False and left all of it in place.
C35_Witness ==
    /\ Len(fetches) = 2
    /\ fetches[1].fn = "setup_ssh_key" /\ fetches[1].ret = Returned(<<"True">>)
    /\ fetches[2].fn = "setup_ssh_key"
    /\ AnswerOutcome(fetches[2].answer) = "AccessDeniedException"
    /\ fetches[2].ret = Returned(<<"False">>)
    /\ keyFile = fetches[1].answer.secret /\ keyFile # NoSecret
    /\ sshDirMode = "0700" /\ keyMode = "0600" /\ sshConfig = "deploy"

\* What a call of setup_ssh_key returned, as the history records it.
ReturnedBool(b) == Returned(IF b THEN <<"True">> ELSE <<"False">>)

\* C36: for every outcome of the secret store, setup_ssh_key returns the same
\* boolean in the traced variant, whose get_secret re-raises, as in the
\* simple variant, whose get_secret returns None; every recorded call
\* returned that boolean.
C36_VariantsAgreeOnCredential ==
    /\ \A o \in SecretOutcomes, fsOk \in BOOLEAN :
          SetupSshKeyResult("traced", o, fsOk) = SetupSshKeyResult("simple", o, fsOk)
    /\ \A i \in FetchesOf({"setup_ssh_key"}) :
          LET o == AnswerOutcome(fetches[i].answer)
              fsOk == fetches[i].failAt = "none"
          IN  /\ fetches[i].ret = ReturnedBool(SetupSshKeyResult("traced", o, fsOk))
              /\ fetches[i].ret = ReturnedBool(SetupSshKeyResult("simple", o, fsOk))

\* The simple variant ran setup_ssh_key twice: the store raised a core error
\* and the call returned False, then it held a key and the call returned True.
C36_Witness ==
    /\ variant = "simple" /\ Len(fetches) = 2
    /\ fetches[1].fn = "setup_ssh_key"
    /\ AnswerOutcome(fetches[1].answer) = "BotoCoreError"
    /\ fetches[1].ret = Returned(<<"False">>)
    /\ fetches[2].fn = "setup_ssh_key"
    /\ AnswerOutcome(fetches[2].answer) = "key"
    /\ fetches[2].ret = Returned(<<"True">>)

\* C37: in the build variant start_java_process runs the toolchain discovery
\* again and goes on to spawn the child only if it returns a runtime home;
\* when it returns nothing the launch reports failure, no child is spawned
\* and java_process is not assigned.
C37_LaunchRediscovers ==
    /\ [][(variant = "simple" /\ pc = "start_enter" /\ pc' # pc) =>
            LET f == _find_java_home(host)
            IN  /\ findLog' = f.log
                /\ java_home' = f.home
                /\ pc' = "start_spawn" => f.home # NoPath
                /\ f.home = NoPath =>
                      /\ startRet' = "false"
                      /\ pc' # "start_spawn"
                      /\ procs' = procs
                      /\ java_process' = java_process]_vars
    /\ [][(variant = "simple" /\ Len(procs') > Len(procs)) =>
            /\ java_home # NoPath
            /\ findLog # <<>>]_vars

\* A host without any runtime: start_java_process of the build variant ran
\* the discovery, found nothing and returned False with no child and no
\* handle.
C37_Witness ==
    /\ variant = "simple" /\ driver = "client"
    /\ curOp = "start" /\ pc = "client_idle"
    /\ startRet = "false"
    /\ findLog # <<>> /\ java_home = NoPath
    /\ procs = <<>> /\ java_process = 0

====
